---- MODULE Spec2Model ----
(***************************************************************************)
(* A model of the three client-side PDF tools of the application:          *)
(*   PdfSplitTool  (src/unnamed/part_000)                                  *)
(*   PdfCompress   (src/unnamed/part_001)                                  *)
(*   PDFMerger     (src/src/components/pdf_merger.jsx)                     *)
(* Each React component is a state machine: its useState cells are the     *)
(* variables, each event handler is an action, and each async handler is   *)
(* cut into steps at its awaits; the values a handler closed over when it  *)
(* was invoked are kept in variables of their own.                         *)
(*                                                                         *)
(* A PDF page is <<f, k>>: page k (1-based) of the file f; a document is a *)
(* sequence of pages.  A text is a sequence of one-character strings.      *)
(***************************************************************************)
EXTENDS Integers, Sequences, FiniteSets, TLC

(* ------------------------------ bounds --------------------------------- *)

\* pages of the largest source document
MaxPages == 2
\* longest range list the user builds
MaxRanges == 2
\* onPickFile invocations whose load is in flight at the same time
MaxLoads == 2
\* longest text pasted as a whole into the textarea
MaxTextLen == 4
\* longest file list of the merger
MaxFiles == 2
\* most files one selection of the merger's file input holds
MaxBatch == 2

(* ------------------------------ files ---------------------------------- *)

NoFile == "none"

\* The files the user can pick in the split tool:
\*   A, B  readable PDFs, C a corrupted PDF, X not a PDF at all.
SplitFiles == {"A", "B", "C", "X"}

\* f.type === "application/pdf" || f.name.toLowerCase().endsWith(".pdf")
IsPdf(f) == f # "X"

\* The files the user can select in the merger: P, Q and R are readable PDFs,
\* Q a file of another folder with the name and the size of P; S is a
\* corrupted PDF, T a text file.
MergeFiles == {"P", "Q", "R", "S", "T"}

NameOf(f) ==
    CASE f \in {"P", "Q"} -> "a.pdf" [] f = "R" -> "b.pdf"
      [] f = "S" -> "c.pdf" [] f = "T" -> "d.txt"

SizeOf(f) == CASE f \in {"P", "Q"} -> 10 [] f \in {"R", "S"} -> 20 [] f = "T" -> 30

TypeOf(f) == IF f = "T" THEN "text/plain" ELSE "application/pdf"

\* PDFDocument.load and pdfjsLib.getDocument read the file
Readable(f) == f \in {"A", "B", "P", "Q", "R"}

PageCountOf(f) == IF f \in {"A", "P"} THEN MaxPages ELSE 1

\* the pages of a loaded document, in their order
PagesOf(f) == [k \in 1..PageCountOf(f) |-> <<f, k>>]

(* ------------------------------ helpers -------------------------------- *)

Min(a, b) == IF a <= b THEN a ELSE b

Max(a, b) == IF a >= b THEN a ELSE b

\* the numbers the user types into a From/To field
Vals == 0..(MaxPages + 1)

Range(from, to) == [from |-> from, to |-> to]

Err(msg) == [msg |-> msg, token |-> <<>>]

NoError == Err("")

\* clampInt(v, min, max) for a numeric v
clampInt_noLower(v, min, max) == Min(max, v)

clampInt(v, min, max) == Max(min, Min(max, v))

(* --------------------------- range text -------------------------------- *)

IsSep(c) == c \in {"\n", ",", ";"}

DigitVal(c) ==
    CASE c = "0" -> 0 [] c = "1" -> 1 [] c = "2" -> 2 [] c = "3" -> 3
      [] c = "4" -> 4 [] c = "5" -> 5 [] c = "6" -> 6 [] c = "7" -> 7
      [] c = "8" -> 8 [] c = "9" -> 9

RECURSIVE dropWhile(_, _)
\* s without its longest prefix of characters of the class cls
dropWhile(s, cls) ==
    IF s # <<>> /\ Head(s) \in cls THEN dropWhile(Tail(s), cls) ELSE s

RECURSIVE takeWhile(_, _)
\* the longest prefix of s made of characters of the class cls
takeWhile(s, cls) ==
    IF s # <<>> /\ Head(s) \in cls
    THEN <<Head(s)>> \o takeWhile(Tail(s), cls)
    ELSE <<>>

Seps == {"\n", ",", ";"}

Spaces == {" "}

Digits == {"0", "1", "2", "3", "4", "5", "6", "7", "8", "9"}

RECURSIVE Reverse(_)
Reverse(s) == IF s = <<>> THEN <<>> ELSE Append(Reverse(Tail(s)), Head(s))

\* String.prototype.trim
trim(s) == Reverse(dropWhile(Reverse(dropWhile(s, Spaces)), Spaces))

RECURSIVE splitFrom(_, _)
\* String.prototype.split(/[\n,;]+/): the pieces between the maximal runs of
\* separators; cur is the piece being read.  A leading or trailing run leaves
\* an empty piece, as in JavaScript.
splitFrom(s, cur) ==
    IF s = <<>> THEN <<cur>>
    ELSE IF IsSep(Head(s))
         THEN <<cur>> \o splitFrom(dropWhile(s, Seps), <<>>)
         ELSE splitFrom(Tail(s), Append(cur, Head(s)))

split(text) == splitFrom(text, <<>>)

\* Array.prototype.filter(Boolean) on strings: the empty string is falsy
RECURSIVE filterNonEmpty(_)
filterNonEmpty(ps) ==
    IF ps = <<>> THEN <<>>
    ELSE IF Head(ps) = <<>> THEN filterNonEmpty(Tail(ps))
         ELSE <<Head(ps)>> \o filterNonEmpty(Tail(ps))

\* lines 149-152: split, trim every piece, drop the blank ones
tokensOf(text) ==
    LET ps == split(text)
    IN  filterNonEmpty([i \in 1..Len(ps) |-> trim(ps[i])])

RECURSIVE parseIntFrom(_, _)
parseIntFrom(ds, acc) ==
    IF ds = <<>> THEN acc
    ELSE parseIntFrom(Tail(ds), 10 * acc + DigitVal(Head(ds)))

\* parseInt(ds, 10) of a string of digits
parseInt(ds) == parseIntFrom(ds, 0)

\* what parseRangeText returns for a text that is no range
Null == [from |-> -1, to |-> -1]

\* parseRangeText: t.match(/^(\d+)\s*(?:-\s*(\d+))?$/) read left to right:
\* m1 the digits, then blanks, then nothing more, or "-", blanks and m2 the
\* digits up to the end.
parseRangeText_swapped(text) ==
    LET t    == trim(text)
        m1   == takeWhile(t, Digits)
        r1   == dropWhile(dropWhile(t, Digits), Spaces)
        r2   == IF r1 # <<>> /\ Head(r1) = "-"
                THEN dropWhile(Tail(r1), Spaces) ELSE <<"?">>
        m2   == takeWhile(r2, Digits)
    IN  IF t = <<>> \/ m1 = <<>> THEN Null
        ELSE IF r1 = <<>> THEN Range(parseInt(m1), parseInt(m1))
        ELSE IF m2 # <<>> /\ m2 = r2
             THEN Range(Min(parseInt(m1), parseInt(m2)),
                        Max(parseInt(m1), parseInt(m2)))
        ELSE Null

parseRangeText(text) ==
    LET t    == trim(text)
        m1   == takeWhile(t, Digits)
        r1   == dropWhile(dropWhile(t, Digits), Spaces)
        r2   == IF r1 # <<>> /\ Head(r1) = "-"
                THEN dropWhile(Tail(r1), Spaces) ELSE <<"?">>
        m2   == takeWhile(r2, Digits)
    IN  IF t = <<>> \/ m1 = <<>> THEN Null
        ELSE IF r1 = <<>> THEN Range(parseInt(m1), parseInt(m1))
        ELSE IF m2 # <<>> /\ m2 = r2
             THEN Range(parseInt(m1), parseInt(m2))
        ELSE Null

firstBad_none(toks) == 0

\* the loop of applyBulkRanges (lines 154-162): the index of the first token
\* parseRangeText rejects, 0 when it accepts them all
firstBad(toks) ==
    LET bad == {i \in 1..Len(toks) : parseRangeText(toks[i]) = Null}
    IN  IF bad = {} THEN 0 ELSE CHOOSE i \in bad : \A j \in bad : i <= j

(* ------------------------------ state ---------------------------------- *)

VARIABLES
    \* PdfSplitTool: its useState cells (part_000 lines 15-21)
    file, fileBytes, pageCount, ranges, busy, error,
    \* the onPickFile invocations waiting at their awaits (lines 46-47), each
    \* the file it was given
    loads,
    \* the splitAndDownload invocation: where it stands, what it closed over
    \* (fileBytes, pageCount, file, the range list, cleaned), its loop index,
    \* the documents whose download it clicked and how it ended
    spc, sBytes, sPageCount, sName, sRanges, sCleaned, sI, sDelivered, sResult,
    \* the split tool's handler that ran last, and the text it was given when
    \* it was applyBulkRanges
    lastOp, pasted,
    \* PDFMerger: its useState cell (pdf_merger.jsx line 6)
    files,
    \* the mergeAndDownload invocation: where it stands, the files it closed
    \* over, the index of the file its loop is at, the pages of mergedPdf, the
    \* documents whose download it clicked, its alert
    mpc, mFiles, mI, mergedPdf, mDelivered, mAlert,
    \* PdfCompress: its useState cells (part_001 lines 16-19)
    cBusy, quality, scale, info,
    \* the handleFile invocation: where it stands, the file, quality and scale
    \* it closed over, its loop index, the pages of outPdf, the documents it
    \* handed to downloadBytes, those whose download was clicked, how it ended
    cpc, cFile, cQuality, cScale, cI, outPdf, cOut, cDelivered, cResult

splitState == <<file, fileBytes, pageCount, ranges, busy, error, loads>>

splitInv == <<spc, sBytes, sPageCount, sName, sRanges, sCleaned, sI, sDelivered,
             sResult>>

splitVars == <<splitState, splitInv, lastOp, pasted>>

mergeVars == <<files, mpc, mFiles, mI, mergedPdf, mDelivered, mAlert>>

compressState == <<cBusy, quality, scale, info>>

compressInv == <<cpc, cFile, cQuality, cScale, cI, outPdf, cOut, cDelivered, cResult>>

compressVars == <<compressState, compressInv>>

vars == <<splitVars, mergeVars, compressVars>>

(* --------------------------- PdfSplitTool ------------------------------ *)

SplitInit ==
    /\ file = NoFile
    /\ fileBytes = NoFile
    /\ pageCount = 0
    /\ ranges = <<Range(1, 1)>>
    /\ busy = FALSE
    /\ error = NoError
    /\ loads = <<>>
    /\ spc = "idle"
    /\ sBytes = NoFile
    /\ sPageCount = 0
    /\ sName = NoFile
    /\ sRanges = <<>>
    /\ sCleaned = <<>>
    /\ sI = 0
    /\ sDelivered = <<>>
    /\ sResult = "none"
    /\ pasted = <<>>
    /\ lastOp = "none"

\* The record of a finished splitAndDownload invocation is kept until the
\* tool's next event.
SplitForget ==
    IF spc = "done"
    THEN /\ spc' = "idle"
         /\ sBytes' = NoFile
         /\ sPageCount' = 0
         /\ sName' = NoFile
         /\ sRanges' = <<>>
         /\ sCleaned' = <<>>
         /\ sI' = 0
         /\ sDelivered' = <<>>
         /\ sResult' = "none"
    ELSE UNCHANGED splitInv

\* useMemo validRanges (lines 23-29)
validRanges ==
    IF pageCount = 0 THEN <<>>
    ELSE [i \in 1..Len(ranges) |->
            Range(clampInt(ranges[i].from, 1, pageCount),
                  clampInt(ranges[i].to, 1, pageCount))]

\* onPickFile up to its first await (lines 32-46)
onPickFile(f) ==
    /\ IF f = NoFile
       THEN /\ error' = NoError
            /\ UNCHANGED <<file, fileBytes, pageCount, loads>>
       ELSE IF ~IsPdf(f)
       THEN /\ error' = Err("Please choose a PDF file.")
            /\ UNCHANGED <<file, fileBytes, pageCount, loads>>
       ELSE /\ Len(loads) < MaxLoads
            /\ error' = NoError
            /\ file' = f
            /\ pageCount' = 0
            /\ fileBytes' = NoFile
            /\ loads' = Append(loads, f)
    /\ lastOp' = "onPickFile"
    /\ pasted' = <<>>
    /\ SplitForget
    /\ UNCHANGED <<ranges, busy>>

\* s without its i-th element
RemoveAt(s, i) == [j \in 1..(Len(s) - 1) |-> IF j < i THEN s[j] ELSE s[j + 1]]

\* onPickFile after its awaits (lines 46-54): the load of the i-th waiting
\* invocation ends, with the document or with an exception
onPickFileLoaded(i) ==
    /\ i \in 1..Len(loads)
    /\ loads' = RemoveAt(loads, i)
    /\ IF Readable(loads[i])
       THEN /\ fileBytes' = loads[i]
            /\ pageCount' = PageCountOf(loads[i])
            /\ ranges' = <<Range(1, Min(1, PageCountOf(loads[i])))>>
            /\ UNCHANGED error
       ELSE /\ error' = Err("Could not read that PDF.")
            /\ UNCHANGED <<fileBytes, pageCount, ranges>>
    /\ lastOp' = "onPickFile"
    /\ pasted' = <<>>
    /\ UNCHANGED <<file, busy, splitInv>>

\* the From/To inputs and the textarea are disabled while !pageCount || busy
\* (lines 217, 230, 252)
InputsEnabled == pageCount # 0 /\ ~busy

\* updateRange(idx, {from: v}) or updateRange(idx, {to: v}) (lines 57-61),
\* from the onChange of an input
updateRange(idx, field, v) ==
    /\ InputsEnabled
    /\ idx \in 1..Len(ranges)
    /\ ranges' = [ranges EXCEPT ![idx] =
                    IF field = "from" THEN Range(v, @.to) ELSE Range(@.from, v)]
    /\ lastOp' = "updateRange"
    /\ pasted' = <<>>
    /\ SplitForget
    /\ UNCHANGED <<file, fileBytes, pageCount, busy, error, loads>>

\* addRange (lines 63-66); its button is disabled while !pageCount || busy
addRange ==
    /\ InputsEnabled
    /\ Len(ranges) < MaxRanges
    /\ LET last == IF validRanges = <<>> THEN 0
                   ELSE validRanges[Len(validRanges)].to
           nextFrom == IF pageCount # 0 THEN Min(pageCount, last + 1) ELSE 1
       IN  ranges' = Append(ranges, Range(nextFrom, nextFrom))
    /\ lastOp' = "addRange"
    /\ pasted' = <<>>
    /\ SplitForget
    /\ UNCHANGED <<file, fileBytes, pageCount, busy, error, loads>>

\* removeRange (lines 68-70); its button is disabled while
\* ranges.length <= 1 || busy
removeRange(idx) ==
    /\ Len(ranges) > 1 /\ ~busy
    /\ idx \in 1..Len(ranges)
    /\ ranges' = RemoveAt(ranges, idx)
    /\ lastOp' = "removeRange"
    /\ pasted' = <<>>
    /\ SplitForget
    /\ UNCHANGED <<file, fileBytes, pageCount, busy, error, loads>>

\* the function normalizeRanges maps over the list (lines 75-79)
normalizeRange(r, pc) ==
    LET from == clampInt(r.from, 1, pc)
        to   == clampInt(r.to, 1, pc)
    IN  IF from <= to THEN Range(from, to) ELSE Range(to, from)

\* normalizeRanges (lines 72-81), the onBlur of a From/To input
normalizeRanges ==
    /\ InputsEnabled
    /\ IF pageCount = 0 THEN UNCHANGED ranges
       ELSE ranges' = [i \in 1..Len(ranges) |-> normalizeRange(ranges[i], pageCount)]
    /\ lastOp' = "normalizeRanges"
    /\ pasted' = <<>>
    /\ SplitForget
    /\ UNCHANGED <<file, fileBytes, pageCount, busy, error, loads>>

\* applyBulkRanges(text) (lines 147-170), the onBlur of the textarea
applyBulkRanges(text) ==
    /\ InputsEnabled
    /\ LET lines == tokensOf(text)
           bad   == firstBad(lines)
       IN  IF bad # 0
           THEN /\ error' = [msg |-> "Could not parse", token |-> lines[bad]]
                /\ UNCHANGED ranges
           ELSE IF Len(lines) = 0
           THEN /\ error' = Err("No ranges found.")
                /\ UNCHANGED ranges
           ELSE /\ error' = NoError
                /\ ranges' = [i \in 1..Len(lines) |-> parseRangeText(lines[i])]
    /\ pasted' = text
    /\ lastOp' = "applyBulkRanges"
    /\ SplitForget
    /\ UNCHANGED <<file, fileBytes, pageCount, busy, loads>>

\* lines 90-95: validRanges with from and to swapped where from > to
cleanedOf(vr) ==
    [i \in 1..Len(vr) |->
        IF vr[i].from > vr[i].to THEN Range(vr[i].to, vr[i].from) ELSE vr[i]]

\* lines 98-103: some range of cleaned is out of bounds or empty
invalidRange(cl, pc) ==
    \E i \in 1..Len(cl) : cl[i].from < 1 \/ cl[i].to > pc \/ cl[i].from > cl[i].to

\* line 115: the 0-based indexes of the pages from..to
pageIndexes_offByOne(from, to) == [k \in 1..(to - from + 1) |-> from + (k - 1)]

pageIndexes(from, to) == [k \in 1..(to - from + 1) |-> (from - 1) + (k - 1)]

\* out.copyPages(src, indexes) and out.addPage of each (lines 117-118): the
\* pages of src at the 0-based indexes, in the order of the indexes
copyPages(src, indexes) == [j \in 1..Len(indexes) |-> PagesOf(src)[indexes[j] + 1]]

\* copyPages throws for an index the source does not have
copyable(src, indexes) ==
    \A j \in 1..Len(indexes) : indexes[j] \in 0..(PageCountOf(src) - 1)

\* downloadBytes of part_000 (lines 293-304): the link is clicked
downloadBytes(delivered, bytes) == Append(delivered, bytes)

\* what downloadBytes is given for the range r (lines 120-122): the document
\* and the parts of its filename
outputOf(src, base, r) ==
    [base |-> base, from |-> r.from, to |-> r.to,
     pages |-> copyPages(src, pageIndexes(r.from, r.to))]

\* splitAndDownload up to its first await (lines 84-107); the button is
\* disabled while !pageCount || !fileBytes || busy (line 271)
splitAndDownload ==
    /\ pageCount # 0 /\ fileBytes # NoFile /\ ~busy
    /\ LET cleaned == cleanedOf(validRanges)
       IN  IF fileBytes = NoFile \/ pageCount = 0
           THEN /\ error' = Err("Please upload a PDF first.")
                /\ spc' = "done" /\ sResult' = "failed"
                /\ sCleaned' = <<>> /\ sBytes' = NoFile /\ sPageCount' = 0
                /\ sName' = NoFile /\ sI' = 0
                /\ UNCHANGED busy
           ELSE IF invalidRange(cleaned, pageCount)
           THEN /\ error' = Err("One or more ranges are invalid.")
                /\ spc' = "done" /\ sResult' = "failed"
                /\ sCleaned' = cleaned /\ sBytes' = fileBytes
                /\ sPageCount' = pageCount /\ sName' = file /\ sI' = 0
                /\ UNCHANGED busy
           ELSE /\ error' = NoError
                /\ busy' = TRUE
                /\ spc' = "load" /\ sResult' = "none"
                /\ sCleaned' = cleaned /\ sBytes' = fileBytes
                /\ sPageCount' = pageCount /\ sName' = file /\ sI' = 1
    /\ sRanges' = ranges
    /\ sDelivered' = <<>>
    /\ lastOp' = "splitAndDownload"
    /\ pasted' = <<>>
    /\ UNCHANGED <<file, fileBytes, pageCount, ranges, loads>>

\* the end of splitAndDownload: the finally of line 126-128
splitEnds(result) ==
    /\ busy' = FALSE
    /\ spc' = "done"
    /\ sResult' = result

\* line 107: the source is loaded from the bytes closed over
splitLoaded ==
    /\ spc = "load"
    /\ IF Len(sCleaned) = 0
       THEN splitEnds("ok")
       ELSE spc' = "loop" /\ UNCHANGED <<busy, sResult>>
    /\ UNCHANGED <<file, fileBytes, pageCount, ranges, error, loads,
                   sBytes, sPageCount, sName, sRanges, sCleaned, sI, sDelivered,
                   lastOp, pasted>>

\* one turn of the loop (lines 110-123): the document of range sI is built,
\* saved and handed to downloadBytes; after the last range the function ends
splitRange ==
    /\ spc = "loop"
    /\ sI <= Len(sCleaned)
    /\ copyable(sBytes, pageIndexes(sCleaned[sI].from, sCleaned[sI].to))
    /\ sDelivered' = downloadBytes(sDelivered, outputOf(sBytes, sName, sCleaned[sI]))
    /\ sI' = sI + 1
    /\ IF sI = Len(sCleaned)
       THEN splitEnds("ok")
       ELSE UNCHANGED <<busy, spc, sResult>>
    /\ UNCHANGED <<file, fileBytes, pageCount, ranges, error, loads,
                   sBytes, sPageCount, sName, sRanges, sCleaned, lastOp, pasted>>

\* an await of lines 107-120 rejects (load, create, copyPages or save throws):
\* the catch sets the error, the finally clears busy (lines 124-128)
splitThrows ==
    /\ spc \in {"load", "loop"}
    /\ error' = Err("Splitting failed.")
    /\ splitEnds("failed")
    /\ UNCHANGED <<file, fileBytes, pageCount, ranges, loads,
                   sBytes, sPageCount, sName, sRanges, sCleaned, sI, sDelivered,
                   lastOp, pasted>>

(* ----------------------------- PDFMerger ------------------------------- *)

MergeInit ==
    /\ files = <<>>
    /\ mpc = "idle"
    /\ mFiles = <<>>
    /\ mI = 0
    /\ mergedPdf = <<>>
    /\ mDelivered = <<>>
    /\ mAlert = ""

\* The record of a finished mergeAndDownload invocation is kept until the
\* merger's next event.
MergeForget ==
    IF mpc = "done"
    THEN /\ mpc' = "idle"
         /\ mFiles' = <<>>
         /\ mI' = 0
         /\ mergedPdf' = <<>>
         /\ mDelivered' = <<>>
         /\ mAlert' = ""
    ELSE UNCHANGED <<mpc, mFiles, mI, mergedPdf, mDelivered, mAlert>>

\* Array.prototype.filter: the elements of s that are in the set keep, in
\* their order
RECURSIVE filter(_, _)
filter(s, keep) ==
    IF s = <<>> THEN <<>>
    ELSE IF Head(s) \in keep THEN <<Head(s)>> \o filter(Tail(s), keep)
         ELSE filter(Tail(s), keep)

\* lines 13-19: the files of fileList that no file of the list has the name
\* and size of
newFilesOf(fileList, list) ==
    filter(fileList,
           {f \in MergeFiles :
               ~\E i \in 1..Len(list) :
                   NameOf(list[i]) = NameOf(f) /\ SizeOf(list[i]) = SizeOf(f)})

\* onFilesSelected (lines 8-22) for the files of one selection
onFilesSelected(batch) ==
    LET fileList == filter(batch, {f \in MergeFiles : TypeOf(f) = "application/pdf"})
        newFiles == newFilesOf(fileList, files)
    IN  /\ Len(files) + Len(newFiles) <= MaxFiles
        /\ files' = files \o newFiles
        /\ MergeForget

\* removeAt (lines 24-26)
removeAt(index) ==
    /\ index \in 1..Len(files)
    /\ files' = RemoveAt(files, index)
    /\ MergeForget

\* src.getPageIndices(): the 0-based indexes of all the pages of src
getPageIndices_reversed(src) == [k \in 1..PageCountOf(src) |-> PageCountOf(src) - k]

getPageIndices(src) == [k \in 1..PageCountOf(src) |-> k - 1]

\* lines 38-44: the pages of mergedPdf once all the pages of src are added
mergedWith(merged, src) == merged \o copyPages(src, getPageIndices(src))

\* line 29: the list has the two files a merge needs
mergeStarts_noCheck == TRUE

mergeStarts == Len(files) >= 2

\* mergeAndDownload up to its first await (lines 28-38)
mergeAndDownload ==
    /\ mpc \in {"idle", "done"}
    /\ IF ~mergeStarts
       THEN /\ mAlert' = "Please add at least two PDF files to merge."
            /\ mpc' = "done"
            /\ mFiles' = <<>>
            /\ mI' = 0
       ELSE /\ mAlert' = ""
            /\ mpc' = IF Len(files) = 0 THEN "save" ELSE "loop"
            /\ mFiles' = files
            /\ mI' = 1
    /\ mergedPdf' = <<>>
    /\ mDelivered' = <<>>
    /\ UNCHANGED files

\* one turn of the loop (lines 37-45): the file is read and loaded and its
\* pages are added; a file that cannot be loaded throws, and the catch of
\* lines 60-63 reports it
mergeSource ==
    /\ mpc = "loop"
    /\ mI <= Len(mFiles)
    /\ IF Readable(mFiles[mI])
       THEN /\ mergedPdf' = mergedWith(mergedPdf, mFiles[mI])
            /\ mI' = mI + 1
            /\ mpc' = IF mI = Len(mFiles) THEN "save" ELSE "loop"
            /\ UNCHANGED mAlert
       ELSE /\ mAlert' = "An error occurred while merging PDFs."
            /\ mpc' = "done"
            /\ UNCHANGED <<mergedPdf, mI>>
    /\ UNCHANGED <<files, mFiles, mDelivered>>

\* lines 47-59: the document is saved, its download is clicked and the
\* success is reported
mergeSaved ==
    /\ mpc = "save"
    /\ mDelivered' = Append(mDelivered, mergedPdf)
    /\ mAlert' = "Merged PDF downloaded as merged.pdf"
    /\ mpc' = "done"
    /\ UNCHANGED <<files, mFiles, mI, mergedPdf>>

(* ---------------------------- PdfCompress ------------------------------ *)

\* the positions of the quality slider (percent) and of the scale slider
\* (tenths) that are tried
Qualities == {20, 60, 100}

Scales == {8, 12, 20}

CompressInit ==
    /\ cBusy = FALSE
    /\ quality = 60
    /\ scale = 12
    /\ info = ""
    /\ cpc = "idle"
    /\ cFile = NoFile
    /\ cQuality = 0
    /\ cScale = 0
    /\ cI = 0
    /\ outPdf = <<>>
    /\ cOut = <<>>
    /\ cDelivered = <<>>
    /\ cResult = "none"

\* The record of a finished handleFile invocation is kept until the
\* compressor's next event.
CompressForget ==
    IF cpc = "done"
    THEN /\ cpc' = "idle"
         /\ cFile' = NoFile
         /\ cQuality' = 0
         /\ cScale' = 0
         /\ cI' = 0
         /\ outPdf' = <<>>
         /\ cOut' = <<>>
         /\ cDelivered' = <<>>
         /\ cResult' = "none"
    ELSE UNCHANGED compressInv

\* the sliders (lines 101, 114), disabled while busy
setQuality(q) ==
    /\ ~cBusy
    /\ quality' = q
    /\ CompressForget
    /\ UNCHANGED <<cBusy, scale, info>>

setScale(sc) ==
    /\ ~cBusy
    /\ scale' = sc
    /\ CompressForget
    /\ UNCHANGED <<cBusy, quality, info>>

\* file.name.toLowerCase().endsWith(".pdf") (line 26)
HasPdfName(f) == f # "X"

\* handleFile up to its first await (lines 22-34); the input is disabled
\* while busy (line 122)
handleFile(f) ==
    /\ ~cBusy
    /\ cpc \in {"idle", "done"}
    /\ IF f = NoFile
       THEN /\ info' = ""
            /\ CompressForget
            /\ UNCHANGED cBusy
       ELSE IF ~HasPdfName(f)
       THEN /\ info' = "Please upload a PDF file."
            /\ CompressForget
            /\ UNCHANGED cBusy
       ELSE /\ info' = ""
            /\ cBusy' = TRUE
            /\ cpc' = "load"
            /\ cFile' = f
            /\ cQuality' = quality
            /\ cScale' = scale
            /\ cI' = 1
            /\ outPdf' = <<>>
            /\ cOut' = <<>>
            /\ cDelivered' = <<>>
            /\ cResult' = "none"
    /\ UNCHANGED <<quality, scale>>

\* the end of handleFile: the finally of lines 79-81
compressEnds(result) ==
    /\ cBusy' = FALSE
    /\ cpc' = "done"
    /\ cResult' = result

\* lines 34-42: the bytes are read, pdf.js loads them, outPdf is created
compressLoaded ==
    /\ cpc = "load"
    /\ Readable(cFile)
    /\ cpc' = IF PageCountOf(cFile) = 0 THEN "save" ELSE "loop"
    /\ UNCHANGED <<compressState, cFile, cQuality, cScale, cI, outPdf, cOut,
                   cDelivered, cResult>>

\* lines 45-68: the page of outPdf made of page i of the source: its raster
\* at the scale, encoded at the quality
rasterPage_first(f, i, sc, q) == [page |-> <<f, 1>>, scale |-> sc, quality |-> q]

rasterPage(f, i, sc, q) == [page |-> <<f, i>>, scale |-> sc, quality |-> q]

\* one turn of the loop (lines 44-69)
compressPage ==
    /\ cpc = "loop"
    /\ cI <= PageCountOf(cFile)
    /\ outPdf' = Append(outPdf, rasterPage(cFile, cI, cScale, cQuality))
    /\ cI' = cI + 1
    /\ cpc' = IF cI = PageCountOf(cFile) THEN "save" ELSE "loop"
    /\ UNCHANGED <<compressState, cFile, cQuality, cScale, cOut, cDelivered, cResult>>

\* downloadBytes of part_001 (lines 139-151): the link is made and removed,
\* its click is commented out (line 147)
downloadBytesCompress(delivered, bytes) == delivered

\* lines 71-75 and the finally: outPdf is saved and handed to downloadBytes,
\* "Done!" is reported
compressSaved ==
    /\ cpc = "save"
    /\ cOut' = Append(cOut, outPdf)
    /\ cDelivered' = downloadBytesCompress(cDelivered, outPdf)
    /\ info' = "Done!"
    /\ compressEnds("ok")
    /\ UNCHANGED <<quality, scale, cFile, cQuality, cScale, cI, outPdf>>

\* an await of lines 34-71 rejects: the file cannot be loaded, or the render
\* or the encoding of the page the loop is at fails, or the save; the catch
\* reports it (lines 76-78)
compressThrows ==
    /\ \/ cpc = "load" /\ ~Readable(cFile)
       \/ cpc \in {"loop", "save"}
    /\ info' = "Compression failed."
    /\ compressEnds("failed")
    /\ UNCHANGED <<quality, scale, cFile, cQuality, cScale, cI, outPdf, cOut, cDelivered>>

(* --------------------------- specifications ---------------------------- *)

Init == SplitInit /\ MergeInit /\ CompressInit

\* the texts pasted while the split itself is explored
SampleTexts == { <<"1", "-", "2">>, <<"3", "-", "1">> }

\* a file is picked, here while no split runs and once the load of the one
\* before has ended
PickFile == \E f \in {"A", "X", NoFile} : ~busy /\ loads = <<>> /\ onPickFile(f)

PickFileLoaded == \E i \in 1..Len(loads) : onPickFileLoaded(i)

UpdateRange == \E idx \in 1..Len(ranges), field \in {"from", "to"}, v \in Vals :
                  updateRange(idx, field, v)

RemoveRange == \E idx \in 1..Len(ranges) : removeRange(idx)

PasteSample == \E t \in SampleTexts : applyBulkRanges(t)

\* The split tool: a document is picked, ranges are edited, the split runs.
SplitNext ==
    \/ PickFile /\ UNCHANGED <<mergeVars, compressVars>>
    \/ PickFileLoaded /\ UNCHANGED <<mergeVars, compressVars>>
    \/ UpdateRange /\ UNCHANGED <<mergeVars, compressVars>>
    \/ addRange /\ UNCHANGED <<mergeVars, compressVars>>
    \/ RemoveRange /\ UNCHANGED <<mergeVars, compressVars>>
    \/ normalizeRanges /\ UNCHANGED <<mergeVars, compressVars>>
    \/ PasteSample /\ UNCHANGED <<mergeVars, compressVars>>
    \/ splitAndDownload /\ UNCHANGED <<mergeVars, compressVars>>
    \/ splitLoaded /\ UNCHANGED <<mergeVars, compressVars>>
    \/ splitRange /\ UNCHANGED <<mergeVars, compressVars>>
    \/ splitThrows /\ UNCHANGED <<mergeVars, compressVars>>

SpecSplit == Init /\ [][SplitNext]_vars

\* the selections of the merger's file input: up to MaxBatch different files
Batches ==
    UNION {{b \in [1..n -> MergeFiles] : \A i, j \in 1..n : b[i] = b[j] => i = j} :
              n \in 0..MaxBatch}

FilesSelected == \E b \in Batches : onFilesSelected(b)

RemoveFile == \E index \in 1..Len(files) : removeAt(index)

\* the characters of a pasted text: digits, the dash, the blank, the
\* separators and a character of no range
Chars == {"1", "2", "-", " ", ",", ";", "\n", "x"}

Texts == UNION {[1..n -> Chars] : n \in 0..MaxTextLen}

PickReadable == loads = <<>> /\ onPickFile("A")

\* any text is pasted, here over the list a sample text or a load has left
PasteText ==
    /\ InputsEnabled
    /\ lastOp = "applyBulkRanges" => pasted \in SampleTexts
    /\ \E t \in Texts : applyBulkRanges(t)

\* The textarea of the split tool: a document is picked, then texts are
\* pasted: the sample texts and any text over Chars.
ParseNext ==
    \/ PickReadable /\ UNCHANGED <<mergeVars, compressVars>>
    \/ PickFileLoaded /\ UNCHANGED <<mergeVars, compressVars>>
    \/ PasteSample /\ UNCHANGED <<mergeVars, compressVars>>
    \/ PasteText /\ UNCHANGED <<mergeVars, compressVars>>

SpecParse == Init /\ [][ParseNext]_vars

\* any file is picked, also while loads of earlier picks are in flight and
\* while a split runs: the file input is never disabled
PickAnyFile == \E f \in SplitFiles \cup {NoFile} : onPickFile(f)

\* The file input of the split tool: files are picked, their loads end in
\* any order, and the split runs on what is stored.
LoadsNext ==
    \/ PickAnyFile /\ UNCHANGED <<mergeVars, compressVars>>
    \/ PickFileLoaded /\ UNCHANGED <<mergeVars, compressVars>>
    \/ splitAndDownload /\ UNCHANGED <<mergeVars, compressVars>>
    \/ splitLoaded /\ UNCHANGED <<mergeVars, compressVars>>
    \/ splitRange /\ UNCHANGED <<mergeVars, compressVars>>
    \/ splitThrows /\ UNCHANGED <<mergeVars, compressVars>>

SpecLoads == Init /\ [][LoadsNext]_vars

\* The merger.
MergeNext ==
    \/ FilesSelected /\ UNCHANGED <<splitVars, compressVars>>
    \/ RemoveFile /\ UNCHANGED <<splitVars, compressVars>>
    \/ mergeAndDownload /\ UNCHANGED <<splitVars, compressVars>>
    \/ mergeSource /\ UNCHANGED <<splitVars, compressVars>>
    \/ mergeSaved /\ UNCHANGED <<splitVars, compressVars>>

SpecMerge == Init /\ [][MergeNext]_vars

SetQuality == \E q \in Qualities : setQuality(q)

SetScale == \E sc \in Scales : setScale(sc)

HandleFile == \E f \in SplitFiles \cup {NoFile} : handleFile(f)

\* The compressor.
CompressNext ==
    \/ SetQuality /\ UNCHANGED <<splitVars, mergeVars>>
    \/ SetScale /\ UNCHANGED <<splitVars, mergeVars>>
    \/ HandleFile /\ UNCHANGED <<splitVars, mergeVars>>
    \/ compressLoaded /\ UNCHANGED <<splitVars, mergeVars>>
    \/ compressPage /\ UNCHANGED <<splitVars, mergeVars>>
    \/ compressSaved /\ UNCHANGED <<splitVars, mergeVars>>
    \/ compressThrows /\ UNCHANGED <<splitVars, mergeVars>>

SpecCompress == Init /\ [][CompressNext]_vars

(* ------------------------------ claims --------------------------------- *)

\* 1 <= from <= to <= pc
InBounds(r, pc) == 1 <= r.from /\ r.from <= r.to /\ r.to <= pc

\* v brought into lo..hi
Clamped(v, lo, hi) == IF v < lo THEN lo ELSE IF v > hi THEN hi ELSE v

\* from and to clamped into 1..pc, each on its own, then swapped if from > to
Normalized(r, pc) ==
    LET f == Clamped(r.from, 1, pc)
        t == Clamped(r.to, 1, pc)
    IN  IF f > t THEN [from |-> t, to |-> f] ELSE [from |-> f, to |-> t]

\* the source pages from, from+1, ..., to of the document f
SourcePages(f, from, to) == [k \in 1..(to - from + 1) |-> <<f, from + k - 1>>]

\* C1: when every range of the list satisfies 1 <= from <= to <= pageCount, a
\* split that succeeds has emitted one document per range, in the order of
\* the list, and the document of {from, to} holds the to-from+1 source pages
\* from..to in ascending order.
C1_SplitEmitsExactlyTheRanges ==
    ( /\ spc = "done" /\ sResult = "ok"
      /\ \A i \in 1..Len(sRanges) : InBounds(sRanges[i], sPageCount) )
    => /\ Len(sDelivered) = Len(sRanges)
       /\ \A i \in 1..Len(sRanges) :
            /\ sDelivered[i].from = sRanges[i].from
            /\ sDelivered[i].to = sRanges[i].to
            /\ Len(sDelivered[i].pages) = sRanges[i].to - sRanges[i].from + 1
            /\ sDelivered[i].pages =
                 SourcePages(sBytes, sRanges[i].from, sRanges[i].to)

\* a split of two ranges, the first of more than one page, has succeeded
C1_Witness ==
    /\ spc = "done" /\ sResult = "ok"
    /\ sRanges = <<[from |-> 1, to |-> 2], [from |-> 2, to |-> 2]>>
    /\ sDelivered[1].pages = <<<<"A", 1>>, <<"A", 2>>>>
    /\ sDelivered[2].pages = <<<<"A", 2>>>>

\* C3: normalizeRanges against a page count >= 1 replaces every range by its
\* clamped and then swapped form, so that 1 <= from <= to <= pageCount holds
\* of each ({10,2} against 5 pages gives {2,5}); and the ranges a split
\* starts to execute are the normalized forms of the ranges of the list.
C3_NormalizationClampsThenSwaps ==
    [][ /\ normalizeRange([from |-> 10, to |-> 2], 5) = [from |-> 2, to |-> 5]
        /\ (lastOp' = "normalizeRanges" /\ pageCount >= 1)
           => /\ Len(ranges') = Len(ranges)
              /\ \A i \in 1..Len(ranges) :
                   /\ ranges'[i] = Normalized(ranges[i], pageCount)
                   /\ InBounds(ranges'[i], pageCount)
        /\ (spc # "load" /\ spc' = "load")
           => /\ Len(sCleaned') = Len(ranges)
              /\ \A i \in 1..Len(ranges) :
                   /\ sCleaned'[i] = Normalized(ranges[i], pageCount)
                   /\ InBounds(sCleaned'[i], pageCount)
      ]_vars

\* a split has started on a range below 1 and above the page count, the other
\* way round
C3_Witness ==
    /\ spc = "load"
    /\ sPageCount = 2
    /\ sRanges = <<[from |-> 3, to |-> 0]>>
    /\ sCleaned = <<[from |-> 1, to |-> 2]>>

C6_AllOrNothing ==
    /\ spc = "done" =>
         \/ sResult = "ok" /\ Len(sDelivered) = Len(sCleaned)
         \/ sResult = "failed" /\ sDelivered = <<>>
    /\ mpc = "done" =>
         \/ mAlert = "Merged PDF downloaded as merged.pdf" /\ Len(mDelivered) = 1
         \/ mAlert # "Merged PDF downloaded as merged.pdf" /\ mDelivered = <<>>
    /\ cpc = "done" =>
         \/ cResult = "ok" /\ Len(cDelivered) = 1
         \/ cResult = "failed" /\ cDelivered = <<>>

RECURSIVE AllPagesOf(_)
\* the pages of every file of the list fs, file after file, each file's pages
\* in their order
AllPagesOf(fs) ==
    IF fs = <<>> THEN <<>>
    ELSE [k \in 1..PageCountOf(Head(fs)) |-> <<Head(fs), k>>] \o AllPagesOf(Tail(fs))

RECURSIVE SumOfPageCounts(_)
SumOfPageCounts(fs) ==
    IF fs = <<>> THEN 0 ELSE PageCountOf(Head(fs)) + SumOfPageCounts(Tail(fs))

\* C2: a merge of two or more readable sources that succeeds delivers one
\* document: the pages of every source, in the order of the list and each
\* source's pages in their order, as many as the sources have together.
C2_MergeConcatenatesInOrder ==
    (mpc = "done" /\ mAlert = "Merged PDF downloaded as merged.pdf")
    => /\ Len(mFiles) >= 2
       /\ Len(mDelivered) = 1
       /\ mDelivered[1] = AllPagesOf(mFiles)
       /\ Len(mDelivered[1]) = SumOfPageCounts(mFiles)

\* the two-page file P and the file R have been merged
C2_Witness ==
    /\ mpc = "done"
    /\ mFiles = <<"P", "R">>
    /\ mDelivered = << <<<<"P", 1>>, <<"P", 2>>, <<"R", 1>>>> >>

\* C8: mergeAndDownload on a list of fewer than two files reports that two
\* are needed: no file is loaded, no document is built or delivered, and the
\* list stays as it is.
C8_MergeNeedsTwoSources ==
    [][ (mpc \in {"idle", "done"} /\ mpc' # "idle" /\ Len(files) < 2)
        => /\ mAlert' = "Please add at least two PDF files to merge."
           /\ mpc' = "done"
           /\ mI' = 0
           /\ mergedPdf' = <<>>
           /\ mDelivered' = <<>>
           /\ files' = files
      ]_vars

\* a merge of a single file has been refused
C8_Witness ==
    /\ mpc = "done"
    /\ mAlert = "Please add at least two PDF files to merge."
    /\ Len(files) = 1
    /\ mDelivered = <<>>

\* C10: no two files of the merger's list have the same name and the same
\* size.
C10_NoDuplicateSources ==
    \A i, j \in 1..Len(files) :
        (NameOf(files[i]) = NameOf(files[j]) /\ SizeOf(files[i]) = SizeOf(files[j]))
        => i = j

\* C7: a compression that succeeds has built a document of as many pages as
\* the source, page i made of the raster of source page i; a compression that
\* fails, at whatever page, has built no document; and while it runs the
\* pages built so far are those of source pages 1, 2, ... in order.
C7_CompressKeepsPageOrder ==
    /\ \A i \in 1..Len(outPdf) :
         /\ outPdf[i].page = <<cFile, i>>
         /\ outPdf[i].scale = cScale
         /\ outPdf[i].quality = cQuality
    /\ (cpc = "done" /\ cResult = "ok")
       => /\ Len(cOut) = 1
          /\ Len(cOut[1]) = PageCountOf(cFile)
          /\ \A i \in 1..PageCountOf(cFile) : cOut[1][i].page = <<cFile, i>>
    /\ (cpc = "done" /\ cResult = "failed") => cOut = <<>>

\* the file A, of more than one page, has been compressed
C7_Witness ==
    /\ cpc = "done" /\ cResult = "ok"
    /\ cFile = "A"
    /\ Len(cOut[1]) >= 2
    /\ cOut[1][2].page = <<"A", 2>>

\* ---- the range grammar, stated on positions of the text ----

Separators == {"\n", ",", ";"}

\* the positions of text where a maximal run of non-separators starts
PieceStarts(text) ==
    {i \in 1..Len(text) :
        text[i] \notin Separators /\ (i = 1 \/ text[i - 1] \in Separators)}

\* the last position of the maximal run of non-separators that starts at i
PieceEnd(text, i) ==
    CHOOSE j \in i..Len(text) :
        /\ \A k \in i..j : text[k] \notin Separators
        /\ j = Len(text) \/ text[j + 1] \in Separators

\* s without the blanks at its two ends
Stripped(s) ==
    LET solid == {i \in 1..Len(s) : s[i] # " "}
    IN  IF solid = {} THEN <<>>
        ELSE SubSeq(s, CHOOSE i \in solid : \A j \in solid : i <= j,
                       CHOOSE i \in solid : \A j \in solid : i >= j)

\* the non-blank pieces of text, stripped, from left to right
TokensOfText(text) ==
    LET starts == {i \in PieceStarts(text) :
                      Stripped(SubSeq(text, i, PieceEnd(text, i))) # <<>>}
        nth    == CHOOSE f \in [1..Cardinality(starts) -> starts] :
                      \A a, b \in 1..Cardinality(starts) : a < b => f[a] < f[b]
    IN  [n \in 1..Cardinality(starts) |->
            Stripped(SubSeq(text, nth[n], PieceEnd(text, nth[n])))]

DecimalDigits == <<"0", "1", "2", "3", "4", "5", "6", "7", "8", "9">>

DigitChars == {DecimalDigits[d] : d \in 1..10}

IsNumber(s) == s # <<>> /\ \A i \in 1..Len(s) : s[i] \in DigitChars

RECURSIVE Decimal(_)
\* the number a string of decimal digits denotes
Decimal(s) ==
    IF s = <<>> THEN 0
    ELSE 10 * Decimal(SubSeq(s, 1, Len(s) - 1))
         + (CHOOSE d \in 0..9 : DecimalDigits[d + 1] = s[Len(s)])

\* the positions of a dash that has a number on each side, blanks allowed
\* around the dash
DashOf(tok) ==
    {d \in 1..Len(tok) :
        /\ tok[d] = "-"
        /\ IsNumber(Stripped(SubSeq(tok, 1, d - 1)))
        /\ IsNumber(Stripped(SubSeq(tok, d + 1, Len(tok))))}

\* tok is N or A-B
ValidToken(tok) == IsNumber(tok) \/ DashOf(tok) # {}

\* {N,N} for N and {A,B} for A-B, in the order given
RangeOfToken(tok) ==
    IF IsNumber(tok) THEN [from |-> Decimal(tok), to |-> Decimal(tok)]
    ELSE LET d == CHOOSE d \in DashOf(tok) : TRUE
         IN  [from |-> Decimal(Stripped(SubSeq(tok, 1, d - 1))),
              to   |-> Decimal(Stripped(SubSeq(tok, d + 1, Len(tok))))]

\* C4: when a pasted text has a token that is no range, applyBulkRanges
\* reports the first such token and leaves the range list as it was, whatever
\* valid tokens came before it; when the text has no token at all it reports
\* that no range was found and leaves the list as it was.
C4_BulkParseIsAtomic ==
    [][ lastOp' = "applyBulkRanges"
        => LET toks == TokensOfText(pasted')
           IN  /\ \A i \in 1..Len(toks) :
                     (~ValidToken(toks[i]) /\ \A j \in 1..(i - 1) : ValidToken(toks[j]))
                     => /\ ranges' = ranges
                        /\ error'.msg = "Could not parse"
                        /\ error'.token = toks[i]
               /\ toks = <<>>
                  => /\ ranges' = ranges
                     /\ error' = Err("No ranges found.")
      ]_vars

\* "1,x" has been pasted over the list that "3-1" left: the list is still
\* that of "3-1" and the token x is reported
C4_Witness ==
    /\ lastOp = "applyBulkRanges"
    /\ pasted = <<"1", ",", "x">>
    /\ ranges = <<Range(3, 1)>>
    /\ error = [msg |-> "Could not parse", token |-> <<"x">>]

\* C9: after a text whose tokens are all ranges has been pasted, the range
\* list is one range per token, in the order of the tokens, {N,N} for N and
\* {A,B} for A-B as given; "3-1" yields {3,1} and "1-3, 5; 7-9\n2" yields
\* four ranges.
C9_BulkParseYieldsOneRangePerToken ==
    /\ lastOp = "applyBulkRanges"
       => LET toks == TokensOfText(pasted)
          IN  (toks # <<>> /\ \A i \in 1..Len(toks) : ValidToken(toks[i]))
              => /\ ranges = [i \in 1..Len(toks) |-> RangeOfToken(toks[i])]
                 /\ error = NoError
    /\ parseRangeText(<<"3", "-", "1">>) = Range(3, 1)
    /\ LET lines == tokensOf(<<"1", "-", "3", ",", " ", "5", ";", " ",
                               "7", "-", "9", "\n", "2">>)
       IN  /\ firstBad(lines) = 0
           /\ [i \in 1..Len(lines) |-> parseRangeText(lines[i])]
                = <<Range(1, 3), Range(5, 5), Range(7, 9), Range(2, 2)>>

\* "2-1" has been pasted and the list is {2,1}, the order as given
C9_Witness ==
    /\ lastOp = "applyBulkRanges"
    /\ pasted = <<"2", "-", "1">>
    /\ ranges = <<Range(2, 1)>>
    /\ error = NoError

\* C11: once no load is in flight, the bytes and the page count stored are
\* those of the file picked last (or none, when its load failed): the load of
\* an earlier pick has not overwritten them.
C11_StoredSourceIsLastPick ==
    loads = <<>>
    => /\ fileBytes \in {NoFile, file}
       /\ pageCount = (IF fileBytes = NoFile THEN 0 ELSE PageCountOf(file))

====
